---- MODULE Spec2Model ----
(***************************************************************************)
(* Model of app/main.py, the DevOps REST API: a FastAPI application whose  *)
(* route handlers are all `async def` coroutines that call the psutil      *)
(* helper functions directly (no await, no thread pool), served by one     *)
(* uvicorn event loop (main.py:306-308).                                   *)
(*                                                                         *)
(* Units: raw utilisation readings are integers in thousandths of a        *)
(* percent; round(x, 2) turns them into hundredths of a percent (Round2).  *)
(* An absent value (Python None, JSON null) is None for numbers and        *)
(* NullStr for strings.                                                    *)
(***************************************************************************)
EXTENDS Integers, Sequences, FiniteSets, TLC

\* ---- bounds of the model ------------------------------------------------
NReq == 2
MaxClock == 1
MaxProcs == 3
CoreCount == 1

\* ---- program constants --------------------------------------------------
MaxLimit == 50
DefaultLimit == 10
TopN == 5

None == -1
NullStr == "<null>"

Req == 1..NReq

Kinds == {"root", "health", "system", "metrics", "cpu", "memory", "disk",
          "network", "processes"}

\* query strings the clients send
Paths == {"/", "/tmp", "/nonexistent/path"}
Limits == {-1, 0, 1, 2, DefaultLimit, MaxLimit, MaxLimit + 1, 2 * MaxLimit}
ServerLimits == {DefaultLimit, MaxLimit + 1}

\* raw cpu_percent readings of a process, thousandths of a percent
CpuRaws == {0, 4, 6, 12}

VARIABLES
    clock,          \* wall clock, datetime.now(timezone.utc)
    cpuTimes,       \* the kernel's cumulative cpu counters [busy, all]
    lastCpuTimes,   \* psutil's module-global sample of the last cpu_percent call
    procTable,      \* the live process table, in enumeration order
    fs,             \* the paths psutil.disk_usage can stat
    diskIo,         \* what psutil.disk_io_counters() does on this platform
    running,        \* the request whose coroutine occupies the event loop, 0 if none
    pc,             \* per request: position of its handler
    kind,           \* per request: the route
    query,          \* per request: the query parameters [path, limit]
    loc,            \* per request: the handler's local values
    calls,          \* per request: the clock/OS reads made so far, in order
    reads,          \* per request: the cpu counter samples it took, in order
    resp            \* per request: the HTTP response, status 0 while none

vars == <<clock, cpuTimes, lastCpuTimes, procTable, fs, diskIo, running, pc,
          kind, query, loc, calls, reads, resp>>

env == <<clock, cpuTimes, procTable, fs, diskIo>>

Min(a, b) == IF a < b THEN a ELSE b

\* round(x, 2) of a reading given in thousandths (no reading of the model
\* lies exactly half way), result in hundredths
Round2(m) == (m + 5) \div 10

OrZero(x) == IF x = None THEN 0 ELSE x

\* ---- the environment ------------------------------------------------------

\* one entry of the process table as psutil.process_iter(attrs) yields it:
\* read = "ok"      the info dict can be read; a field psutil was denied
\*                  access to holds the ad_value None
\*        "nosuch"  reading the entry raises psutil.NoSuchProcess
\*        "denied"  reading the entry raises psutil.AccessDenied
ProcInfos ==
    [read : {"ok"}, name : {"proc"}, cpu_percent : CpuRaws,
     memory_percent : {12}, status : {"running"}]
    \cup
    [read : {"ok"}, name : {NullStr}, cpu_percent : {None},
     memory_percent : {None}, status : {NullStr}]
    \cup
    [read : {"nosuch", "denied"}, name : {NullStr}, cpu_percent : {None},
     memory_percent : {None}, status : {NullStr}]

\* the process reached at position i of the enumeration has pid i
WithPids(infos) ==
    [i \in 1..Len(infos) |->
        [pid |-> i, read |-> infos[i].read, name |-> infos[i].name,
         cpu_percent |-> infos[i].cpu_percent,
         memory_percent |-> infos[i].memory_percent,
         status |-> infos[i].status]]

Tables ==
    UNION {{WithPids(t) : t \in [1..n -> ProcInfos]} : n \in 0..MaxProcs}

\* the process table of the concurrency specification
ServerTable ==
    WithPids(<<[read |-> "ok", name |-> "proc", cpu_percent |-> 6,
                memory_percent |-> 12, status |-> "running"],
               [read |-> "ok", name |-> "proc", cpu_percent |-> 12,
                memory_percent |-> 12, status |-> "running"]>>)

\* the process has info psutil could not read
Unreadable(p) == p.read # "ok" \/ p.cpu_percent = None

\* ---- helper functions -----------------------------------------------------

\* psutil's _cpu_busy_time/_cpu_tot_time delta of two samples, as a
\* percentage in thousandths (psutil itself rounds to one decimal)
CpuCalc(t1, t2) ==
    IF t2.busy <= t1.busy THEN 0
    ELSE IF t2.all - t1.all = 0 THEN 0
    ELSE 100 * ((((t2.busy - t1.busy) * 1000) + ((t2.all - t1.all) \div 2))
                    \div (t2.all - t1.all))

\* get_cpu_info, given the samples that bracket its two blocking windows
get_cpu_info(t1, t2, u1, u2) ==
    [percent |-> Round2(CpuCalc(t1, t2)),
     percent_per_core |-> [i \in 1..CoreCount |-> Round2(CpuCalc(u1, u2))],
     core_count |-> CoreCount,
     core_count_physical |-> CoreCount,
     load_avg |-> <<0, 0, 0>>]

get_memory_info ==
    [ram |-> [total_gb |-> 800, used_gb |-> 400, available_gb |-> 400,
              percent |-> Round2(50000)],
     swap |-> [total_gb |-> 0, used_gb |-> 0, percent |-> Round2(0)]]

get_network_info ==
    [bytes_sent_mb |-> 100, bytes_recv_mb |-> 200, packets_sent |-> 10,
     packets_recv |-> 20, errors_in |-> 0, errors_out |-> 0]

get_system_info ==
    [hostname |-> "host", os |-> "Linux", uptime_seconds |-> clock,
     process_count |-> Len(procTable)]

\* get_disk_info without the except clause around disk_usage: the OSError of
\* a missing path reaches the 500 handler
get_disk_info_uncaught(path) ==
    IF path \notin fs
    THEN [status |-> 500, detail |-> [msg |-> "Internal Server Error", path |-> ""]]
    ELSE IF diskIo = "raises"
    THEN [status |-> 400, detail |-> [msg |-> "Invalid disk path", path |-> path]]
    ELSE [status |-> 200,
          body |-> [path |-> path, total_gb |-> 1000, used_gb |-> 250,
                    free_gb |-> 750, percent |-> Round2(25000)]]

\* get_disk_info: everything between try and except is one try block, so an
\* exception of disk_usage and one of disk_io_counters end the same way
get_disk_info(path) ==
    IF path \notin fs
    THEN [status |-> 400, detail |-> [msg |-> "Invalid disk path", path |-> path]]
    ELSE IF diskIo = "raises"
    THEN [status |-> 400, detail |-> [msg |-> "Invalid disk path", path |-> path]]
    ELSE IF diskIo = "counters"
    THEN [status |-> 200,
          body |-> [path |-> path, total_gb |-> 1000, used_gb |-> 250,
                    free_gb |-> 750, percent |-> Round2(25000),
                    io |-> [read_mb |-> 5, write_mb |-> 7]]]
    ELSE [status |-> 200,
          body |-> [path |-> path, total_gb |-> 1000, used_gb |-> 250,
                    free_gb |-> 750, percent |-> Round2(25000)]]

\* the rows get_top_processes appends, in enumeration order
RECURSIVE ReadRows(_)
ReadRows(table) ==
    IF table = << >> THEN << >>
    ELSE LET p == Head(table)
         IN  IF p.read # "ok"
             THEN ReadRows(Tail(table))
             ELSE <<[pid |-> p.pid, name |-> p.name,
                     cpu_percent |-> Round2(OrZero(p.cpu_percent)),
                     memory_percent |-> Round2(OrZero(p.memory_percent)),
                     status |-> p.status]>> \o ReadRows(Tail(table))

RECURSIVE Reverse(_)
Reverse(s) == IF s = << >> THEN << >> ELSE Reverse(Tail(s)) \o <<Head(s)>>

\* stable insertion into an ascending list: x goes behind the rows whose key
\* is less than or equal to its own
RECURSIVE InsertAsc(_, _)
InsertAsc(x, s) ==
    IF s = << >> THEN <<x>>
    ELSE IF Head(s).cpu_percent <= x.cpu_percent
         THEN <<Head(s)>> \o InsertAsc(x, Tail(s))
         ELSE <<x>> \o s

RECURSIVE StableSortAsc(_)
StableSortAsc(s) ==
    IF s = << >> THEN << >>
    ELSE InsertAsc(s[Len(s)], StableSortAsc(SubSeq(s, 1, Len(s) - 1)))

\* a descending sort that reverses an ascending one: equal rows end up in
\* reverse enumeration order
SortedDescUnstable(s) == Reverse(StableSortAsc(s))

\* sorted(procs, key=cpu_percent, reverse=True): list.sort reverses the list,
\* sorts it stably ascending and reverses the result
SortedDesc(s) == Reverse(StableSortAsc(Reverse(s)))

\* Python's s[:limit]; a negative limit counts from the end
Slice(s, limit) ==
    IF limit >= 0 THEN SubSeq(s, 1, Min(limit, Len(s)))
    ELSE SubSeq(s, 1, IF Len(s) + limit > 0 THEN Len(s) + limit ELSE 0)

get_top_processes(table, limit) == Slice(SortedDesc(ReadRows(table)), limit)

\* ---- the state after start-up ---------------------------------------------

ZeroTimes == [busy |-> 0, all |-> 0]

NoLoc == [ts |-> 0, system |-> [uptime_seconds |-> 0], t1 |-> ZeroTimes,
          t2 |-> ZeroTimes, u1 |-> ZeroTimes, u2 |-> ZeroTimes]

NoResp == [status |-> 0]

DefaultQuery == [path |-> "/", limit |-> DefaultLimit]

InitRequests ==
    /\ running = 0
    /\ pc = [r \in Req |-> "idle"]
    /\ kind = [r \in Req |-> "root"]
    /\ query = [r \in Req |-> DefaultQuery]
    /\ loc = [r \in Req |-> NoLoc]
    /\ calls = [r \in Req |-> << >>]
    /\ reads = [r \in Req |-> << >>]
    /\ resp = [r \in Req |-> NoResp]

InitEnv ==
    /\ clock = 0
    /\ cpuTimes = ZeroTimes
    /\ lastCpuTimes = [cpu |-> ZeroTimes, percpu |-> ZeroTimes]
    /\ fs = {"/", "/tmp"}
    /\ diskIo \in {"counters", "none", "raises"}

Init == InitEnv /\ InitRequests /\ procTable = ServerTable

\* ---- the environment's steps ----------------------------------------------

\* time passes: the clock and the kernel's cpu counters advance
Tick ==
    /\ clock < MaxClock
    /\ clock' = clock + 1
    /\ \E b \in {0, 1} :
          cpuTimes' = [busy |-> cpuTimes.busy + b, all |-> cpuTimes.all + 1]
    /\ UNCHANGED <<lastCpuTimes, procTable, fs, diskIo, running, pc, kind,
                   query, loc, calls, reads, resp>>

\* a client sends request r; uvicorn accepts it and schedules its coroutine
Arrive(r, k, q) ==
    /\ pc[r] = "idle"
    /\ \A o \in Req : o < r => pc[o] # "idle"
    /\ pc' = [pc EXCEPT ![r] = "pending"]
    /\ kind' = [kind EXCEPT ![r] = k]
    /\ query' = [query EXCEPT ![r] = q]
    /\ UNCHANGED <<env, lastCpuTimes, running, loc, calls, reads, resp>>

\* ---- the event loop ---------------------------------------------------------

\* the loop runs one coroutine at a time; a handler, having no await, keeps
\* the loop from its first statement to its return
CanStart(r, k) == running = 0 /\ pc[r] = "pending" /\ kind[r] = k

Call(op) == [op |-> op, at |-> clock]

\* a handler that returns without blocking: response and log in one step
Respond(r, log, response) ==
    /\ pc' = [pc EXCEPT ![r] = "done"]
    /\ calls' = [calls EXCEPT ![r] = calls[r] \o log]
    /\ resp' = [resp EXCEPT ![r] = response]
    /\ running' = 0

Ok(body) == [status |-> 200, body |-> body]

\* ---- the handlers -----------------------------------------------------------

root(r) ==
    /\ CanStart(r, "root")
    /\ Respond(r, << >>, Ok([api |-> "DevOps REST API", status |-> "running"]))
    /\ UNCHANGED <<env, lastCpuTimes, kind, query, loc, reads>>

health_check(r) ==
    /\ CanStart(r, "health")
    /\ Respond(r, <<Call("timestamp"), Call("system")>>,
               Ok([status |-> "healthy", timestamp |-> clock,
                   uptime_seconds |-> get_system_info.uptime_seconds]))
    /\ UNCHANGED <<env, lastCpuTimes, kind, query, loc, reads>>

get_system(r) ==
    /\ CanStart(r, "system")
    /\ Respond(r, <<Call("system")>>, Ok(get_system_info))
    /\ UNCHANGED <<env, lastCpuTimes, kind, query, loc, reads>>

get_memory(r) ==
    /\ CanStart(r, "memory")
    /\ Respond(r, <<Call("timestamp"), Call("memory")>>,
               Ok([timestamp |-> clock, memory |-> get_memory_info]))
    /\ UNCHANGED <<env, lastCpuTimes, kind, query, loc, reads>>

get_network(r) ==
    /\ CanStart(r, "network")
    /\ Respond(r, <<Call("timestamp"), Call("network")>>,
               Ok([timestamp |-> clock, network |-> get_network_info]))
    /\ UNCHANGED <<env, lastCpuTimes, kind, query, loc, reads>>

get_disk(r) ==
    /\ CanStart(r, "disk")
    /\ LET d == get_disk_info(query[r].path)
       IN  Respond(r, <<Call("timestamp"), Call("disk")>>,
                   IF d.status = 200
                   THEN Ok([timestamp |-> clock, disk |-> d.body])
                   ELSE d)
    /\ UNCHANGED <<env, lastCpuTimes, kind, query, loc, reads>>

\* get_processes building the response before it validates the limit
get_processes_validate_late(r) ==
    /\ CanStart(r, "processes")
    /\ IF query[r].limit > MaxLimit
       THEN Respond(r, <<Call("timestamp"), Call("top_processes")>>,
                    [status |-> 400, detail |-> "Limit cannot exceed 50"])
       ELSE Respond(r, <<Call("timestamp"), Call("top_processes")>>,
                    Ok([timestamp |-> clock, count |-> query[r].limit,
                        processes |->
                            get_top_processes(procTable, query[r].limit)]))
    /\ UNCHANGED <<env, lastCpuTimes, kind, query, loc, reads>>

get_processes(r) ==
    /\ CanStart(r, "processes")
    /\ IF query[r].limit > MaxLimit
       THEN Respond(r, << >>,
                    [status |-> 400, detail |-> "Limit cannot exceed 50"])
       ELSE Respond(r, <<Call("timestamp"), Call("top_processes")>>,
                    Ok([timestamp |-> clock, count |-> query[r].limit,
                        processes |->
                            get_top_processes(procTable, query[r].limit)]))
    /\ UNCHANGED <<env, lastCpuTimes, kind, query, loc, reads>>

\* get_cpu calling cpu_percent without an interval: the window starts at the
\* sample the previous call, of any request, left in psutil's global
get_cpu_nonblocking(r) ==
    /\ CanStart(r, "cpu")
    /\ running' = r
    /\ pc' = [pc EXCEPT ![r] = "cpu_window"]
    /\ calls' = [calls EXCEPT ![r] = <<Call("timestamp"), Call("cpu")>>]
    /\ loc' = [loc EXCEPT ![r].ts = clock, ![r].t1 = lastCpuTimes.cpu]
    /\ reads' = [reads EXCEPT ![r] = << >>]
    /\ UNCHANGED <<env, lastCpuTimes, kind, query, resp>>

\* get_cpu up to the first sample of psutil.cpu_percent(interval=1)
get_cpu(r) ==
    /\ CanStart(r, "cpu")
    /\ running' = r
    /\ pc' = [pc EXCEPT ![r] = "cpu_window"]
    /\ calls' = [calls EXCEPT ![r] = <<Call("timestamp"), Call("cpu")>>]
    /\ loc' = [loc EXCEPT ![r].ts = clock, ![r].t1 = cpuTimes]
    /\ reads' = [reads EXCEPT ![r] = <<cpuTimes>>]
    /\ UNCHANGED <<env, lastCpuTimes, kind, query, resp>>

\* get_all_metrics up to the first sample of psutil.cpu_percent(interval=1)
get_all_metrics(r) ==
    /\ CanStart(r, "metrics")
    /\ running' = r
    /\ pc' = [pc EXCEPT ![r] = "cpu_window"]
    /\ calls' = [calls EXCEPT
                    ![r] = <<Call("timestamp"), Call("system"), Call("cpu")>>]
    /\ loc' = [loc EXCEPT ![r].ts = clock,
                          ![r].system = get_system_info,
                          ![r].t1 = cpuTimes]
    /\ reads' = [reads EXCEPT ![r] = <<cpuTimes>>]
    /\ UNCHANGED <<env, lastCpuTimes, kind, query, resp>>

\* cpu_percent(interval=1) wakes up, takes its second sample and returns;
\* cpu_percent(interval=0.1, percpu=True) takes its first sample and sleeps
cpu_window_end(r) ==
    /\ running = r
    /\ pc[r] = "cpu_window"
    /\ lastCpuTimes' = [lastCpuTimes EXCEPT !.cpu = cpuTimes]
    /\ loc' = [loc EXCEPT ![r].t2 = cpuTimes, ![r].u1 = cpuTimes]
    /\ reads' = [reads EXCEPT ![r] = reads[r] \o <<cpuTimes, cpuTimes>>]
    /\ pc' = [pc EXCEPT ![r] = "percpu_window"]
    /\ UNCHANGED <<env, running, kind, query, calls, resp>>

\* get_all_metrics taking its timestamp when it assembles the response
MetricsRestLateTimestamp(r, cpu) ==
    LET d == get_disk_info("/")
    IN  IF d.status # 200
        THEN Respond(r, <<Call("memory"), Call("disk")>>, d)
        ELSE Respond(r, <<Call("memory"), Call("disk"), Call("network"),
                          Call("top_processes")>>,
                     Ok([timestamp |-> clock,
                         system |-> loc[r].system,
                         cpu |-> cpu,
                         memory |-> get_memory_info,
                         disk |-> d.body,
                         network |-> get_network_info,
                         top_processes |-> get_top_processes(procTable, TopN)]))

\* what get_all_metrics does once get_cpu_info has returned
MetricsRest(r, cpu) ==
    LET d == get_disk_info("/")
    IN  IF d.status # 200
        THEN Respond(r, <<Call("memory"), Call("disk")>>, d)
        ELSE Respond(r, <<Call("memory"), Call("disk"), Call("network"),
                          Call("top_processes")>>,
                     Ok([timestamp |-> loc[r].ts,
                         system |-> loc[r].system,
                         cpu |-> cpu,
                         memory |-> get_memory_info,
                         disk |-> d.body,
                         network |-> get_network_info,
                         top_processes |-> get_top_processes(procTable, TopN)]))

\* the per-core call wakes up, get_cpu_info returns and the handler goes on
\* to its own return
percpu_window_end(r) ==
    /\ running = r
    /\ pc[r] = "percpu_window"
    /\ lastCpuTimes' = [lastCpuTimes EXCEPT !.percpu = cpuTimes]
    /\ loc' = [loc EXCEPT ![r].u2 = cpuTimes]
    /\ reads' = [reads EXCEPT ![r] = reads[r] \o <<cpuTimes>>]
    /\ LET cpu == get_cpu_info(loc[r].t1, loc[r].t2, loc[r].u1, cpuTimes)
       IN  IF kind[r] = "cpu"
           THEN Respond(r, << >>, Ok([timestamp |-> loc[r].ts, cpu |-> cpu]))
           ELSE MetricsRest(r, cpu)
    /\ UNCHANGED <<env, kind, query>>

\* ---- the specification of the server ----------------------------------------

Queries(k) ==
    IF k = "disk" THEN [path : Paths, limit : {DefaultLimit}]
    ELSE IF k = "processes" THEN [path : {"/"}, limit : ServerLimits]
    ELSE {DefaultQuery}

\* the loop takes request r's coroutine and runs its handler
Dispatch(r) ==
    \/ root(r)
    \/ health_check(r)
    \/ get_system(r)
    \/ get_memory(r)
    \/ get_network(r)
    \/ get_disk(r)
    \/ get_processes(r)
    \/ get_cpu(r)
    \/ get_all_metrics(r)

Next ==
    \/ Tick
    \/ \E r \in Req, k \in Kinds : \E q \in Queries(k) : Arrive(r, k, q)
    \/ \E r \in Req : root(r)
    \/ \E r \in Req : health_check(r)
    \/ \E r \in Req : get_system(r)
    \/ \E r \in Req : get_memory(r)
    \/ \E r \in Req : get_network(r)
    \/ \E r \in Req : get_disk(r)
    \/ \E r \in Req : get_processes(r)
    \/ \E r \in Req : get_cpu(r)
    \/ \E r \in Req : get_all_metrics(r)
    \/ \E r \in Req : cpu_window_end(r)
    \/ \E r \in Req : percpu_window_end(r)

Spec == Init /\ [][Next]_vars

\* ---- the specification of /processes over every process table --------------

InitProc ==
    /\ InitEnv
    /\ InitRequests
    /\ procTable \in Tables

NextProc ==
    \/ Tick
    \/ \E limit \in Limits :
          Arrive(1, "processes", [path |-> "/", limit |-> limit])
    \/ get_processes(1)

SpecProc == InitProc /\ [][NextProc]_vars

TypeOK ==
    /\ clock \in 0..MaxClock
    /\ running \in Req \cup {0}
    /\ \A r \in Req : pc[r] \in {"idle", "pending", "cpu_window",
                                 "percpu_window", "done"}

\* ---- the claims -------------------------------------------------------------

Done(r, k) == pc[r] = "done" /\ kind[r] = k

InWindow(r) == pc[r] \in {"cpu_window", "percpu_window"}

\* C1: while a request is inside the blocking measurement window of
\* get_cpu_info, any other request in flight can be started (and, for a
\* handler that does not block, completed) before the window ends.
C1_ServerNotBlockedByCpuWindow ==
    \A r \in Req, q \in Req :
        (InWindow(r) /\ pc[q] = "pending") => ENABLED Dispatch(q)

\* C2: a /processes request with limit > 50 is answered 400 without any
\* process-table enumeration or other metric read, neither before nor after
\* the rejection.
C2_RejectedBeforeSampling ==
    \A r \in Req :
        (kind[r] = "processes" /\ query[r].limit > MaxLimit) =>
            /\ calls[r] = << >>
            /\ reads[r] = << >>
            /\ pc[r] = "done" =>
                  /\ resp[r].status = 400
                  /\ resp[r].detail = "Limit cannot exceed 50"

C2_Witness ==
    \E r \in Req :
        /\ Done(r, "processes")
        /\ query[r].limit > MaxLimit
        /\ resp[r].status = 400
        /\ Len(procTable) > 0

\* C3: for every limit the /processes boundary does not reject, the returned
\* sequence has length <= limit and length <= the number of live processes.
C3_LengthAtMostLimit ==
    \A r \in Req :
        (Done(r, "processes") /\ resp[r].status = 200) =>
            /\ Len(resp[r].body.processes) <= query[r].limit
            /\ Len(resp[r].body.processes) <= Len(procTable)

\* the sort key and the row of a table entry, stated from the entry
KeyOf(p) == Round2(IF p.cpu_percent = None THEN 0 ELSE p.cpu_percent)

\* the positions of the table whose entry the enumeration could read into a row
RowPositions == {i \in 1..Len(procTable) : procTable[i].read = "ok"}

\* entry i ranks before entry j: greater cpu_percent, or equal cpu_percent and
\* earlier in the enumeration
Before(i, j) ==
    \/ KeyOf(procTable[i]) > KeyOf(procTable[j])
    \/ KeyOf(procTable[i]) = KeyOf(procTable[j]) /\ i < j

\* C4: for every process table and every limit in 1..50 the returned sequence
\* is the first `limit` rows of the rows read, sorted descending by
\* cpu_percent, rows of equal cpu_percent in enumeration order.
C4_TopRowsStableDescending ==
    \A r \in Req :
        (/\ Done(r, "processes")
         /\ query[r].limit \in 1..MaxLimit) =>
            LET res == resp[r].body.processes
            IN  /\ resp[r].status = 200
                /\ Len(res) = Min(query[r].limit, Cardinality(RowPositions))
                /\ \A i \in 1..Len(res) :
                      /\ res[i].pid \in RowPositions
                      /\ res[i].cpu_percent = KeyOf(procTable[res[i].pid])
                /\ \A i \in 1..Len(res), j \in 1..Len(res) :
                      i < j => Before(res[i].pid, res[j].pid)
                /\ \A i \in 1..Len(res) :
                      \A m \in RowPositions \ {res[j].pid : j \in 1..Len(res)} :
                          Before(res[i].pid, m)

\* a tie decided by enumeration order, and a truncation that leaves a row out
C4_Witness ==
    \E r \in Req :
        /\ Done(r, "processes")
        /\ query[r].limit = 2
        /\ Cardinality(RowPositions) = 3
        /\ Len(resp[r].body.processes) = 2
        /\ resp[r].body.processes[1].cpu_percent
             = resp[r].body.processes[2].cpu_percent
        /\ procTable[resp[r].body.processes[1].pid].cpu_percent
             # procTable[resp[r].body.processes[2].pid].cpu_percent
        /\ \E m \in RowPositions :
              /\ m < resp[r].body.processes[2].pid
              /\ \A i \in 1..2 : resp[r].body.processes[i].pid # m

\* C5: for every disk path that does not exist or cannot be stat-ed,
\* /metrics/disk answers 400 with a message that carries the requested path;
\* never a 500.
C5_InvalidPathIs400WithPath ==
    \A r \in Req :
        (Done(r, "disk") /\ query[r].path \notin fs) =>
            /\ resp[r].status = 400
            /\ resp[r].detail.msg = "Invalid disk path"
            /\ resp[r].detail.path = query[r].path

C5_Witness ==
    \E r \in Req :
        /\ Done(r, "disk")
        /\ query[r].path = "/nonexistent/path"
        /\ query[r].path \notin fs
        /\ resp[r].status = 400
        /\ diskIo = "counters"

\* the order in which get_all_metrics evaluates its dict literal
MetricsOrder ==
    <<"timestamp", "system", "cpu", "memory", "disk", "network",
      "top_processes">>

Sections == {"system", "cpu", "memory", "disk", "network"}

\* C6: /metrics captures exactly one timestamp, before the first
\* sub-collection, then calls the sub-collections in the order system, cpu,
\* memory, disk ("/"), network, top processes; the snapshot carries that
\* timestamp as its only capture-timestamp field.
C6_OneTimestampThenSequence ==
    \A r \in Req :
        (kind[r] = "metrics" /\ pc[r] \notin {"idle", "pending"}) =>
            /\ Len(calls[r]) <= Len(MetricsOrder)
            /\ \A i \in 1..Len(calls[r]) : calls[r][i].op = MetricsOrder[i]
            /\ \A i \in 1..Len(calls[r]), j \in 1..Len(calls[r]) :
                  i < j => calls[r][i].at <= calls[r][j].at
            /\ (pc[r] = "done" /\ resp[r].status = 200) =>
                  /\ Len(calls[r]) = Len(MetricsOrder)
                  /\ resp[r].body.timestamp = calls[r][1].at
                  /\ resp[r].body.disk.path = "/"
                  /\ \A sec \in Sections :
                        "timestamp" \notin DOMAIN resp[r].body[sec]

\* the clock moved during the measurement window and the snapshot still
\* carries the instant captured first
C6_Witness ==
    \E r \in Req :
        /\ Done(r, "metrics")
        /\ resp[r].status = 200
        /\ resp[r].body.timestamp = 0
        /\ clock > 0
        /\ calls[r][Len(calls[r])].at > resp[r].body.timestamp

\* C7: when two requests call get_cpu_info, under every interleaving each
\* result is computed from the caller's own pair of counter reads around its
\* own window, and each percentage lies in [0, 100].
C7_OwnSamplesInRange ==
    \A r \in Req :
        (pc[r] = "done" /\ kind[r] \in {"cpu", "metrics"}
            /\ resp[r].status = 200) =>
            LET cpu == resp[r].body.cpu
            IN  /\ Len(reads[r]) = 4
                /\ cpu.percent = Round2(CpuCalc(reads[r][1], reads[r][2]))
                /\ \A i \in 1..CoreCount :
                      cpu.percent_per_core[i]
                          = Round2(CpuCalc(reads[r][3], reads[r][4]))
                /\ cpu.percent \in 0..10000
                /\ \A i \in 1..CoreCount :
                      cpu.percent_per_core[i] \in 0..10000

\* two cpu requests in flight together, answered with different readings
C7_Witness ==
    \E r \in Req, q \in Req :
        /\ r # q
        /\ Done(r, "cpu") /\ Done(q, "cpu")
        /\ resp[r].body.cpu.percent = 10000
        /\ resp[q].body.cpu.percent = 0
        /\ reads[q][1] = reads[r][4]
        /\ reads[q][1] # reads[r][1]

\* C8: a process whose info cannot be read (exited, or access denied) never
\* appears as a row of the list, not even with zeroed fields.
C8_UnreadableExcluded ==
    \A r \in Req :
        (Done(r, "processes") /\ resp[r].status = 200) =>
            \A i \in 1..Len(resp[r].body.processes) :
                ~Unreadable(procTable[resp[r].body.processes[i].pid])

\* C9: for every valid disk path /metrics/disk succeeds whether or not disk IO
\* counters can be obtained; without them the io section is absent.
C9_ValidPathSucceedsWithoutIo ==
    \A r \in Req :
        (Done(r, "disk") /\ query[r].path \in fs) =>
            /\ resp[r].status = 200
            /\ resp[r].body.disk.path = query[r].path
            /\ diskIo # "counters" => "io" \notin DOMAIN resp[r].body.disk

\* C10: in every successful /processes response, count equals the number of
\* entries of the processes list.
C10_CountIsLength ==
    \A r \in Req :
        (Done(r, "processes") /\ resp[r].status = 200) =>
            resp[r].body.count = Len(resp[r].body.processes)

====
